---------------------------- MODULE Spec2Model ----------------------------
(***************************************************************************)
(* Model of the release selector of the landing page (src/src/App.tsx):    *)
(* tokenizeVersion, compareVersionStrings, findLatestSparkleRelease and    *)
(* the fetch chain of App that stores the selection in versionInfo.        *)
(*                                                                         *)
(* A JavaScript string is a sequence of one-character strings, so that     *)
(* split, trim, the digit test, parseInt, toLowerCase and the relational   *)
(* operators on strings are computed and not assumed.  A value that may be *)
(* null or undefined is an option record: None, or Some(v).                *)
(***************************************************************************)
EXTENDS Integers, Sequences, FiniteSets, TLC

VARIABLES
    pc,           \* position of the fetch chain / of the comparator run
    xml,          \* the feed document the fetch delivers
    versionInfo,  \* App's state: useState<VersionInfo | null>(null)
    a, b, c,      \* arguments handed to compareVersionStrings
    order         \* the results compareVersionStrings returned for them

vars == <<pc, xml, versionInfo, a, b, c, order>>

---------------------------------------------------------------------------
(* Optional values: null / undefined, or a value.                          *)

None == [some |-> FALSE]

Some(v) == [some |-> TRUE, val |-> v]

---------------------------------------------------------------------------
(* Characters and strings.                                                 *)

Digits == <<"0", "1", "2", "3", "4", "5", "6", "7", "8", "9">>

UpperCase ==
    <<"A", "B", "C", "D", "E", "F", "G", "H", "I", "J", "K", "L", "M",
      "N", "O", "P", "Q", "R", "S", "T", "U", "V", "W", "X", "Y", "Z">>

LowerCase ==
    <<"a", "b", "c", "d", "e", "f", "g", "h", "i", "j", "k", "l", "m",
      "n", "o", "p", "q", "r", "s", "t", "u", "v", "w", "x", "y", "z">>

Range(s) == {s[i] : i \in 1..Len(s)}

IndexIn(s, ch) == CHOOSE i \in 1..Len(s) : s[i] = ch

DigitChars == Range(Digits)

UpperCaseChars == Range(UpperCase)

LowerCaseChars == Range(LowerCase)

\* The characters String.prototype.trim removes (those the feeds here use).
Whitespace == {" ", "\t", "\n"}

\* The characters the regular expression /[\.-]/ matches.
Delimiters == {".", "-"}

\* The UTF-16 code unit of a character, which orders strings under > and <.
CharCode(ch) ==
    CASE ch \in DigitChars -> 47 + IndexIn(Digits, ch)
      [] ch \in UpperCaseChars -> 64 + IndexIn(UpperCase, ch)
      [] ch \in LowerCaseChars -> 96 + IndexIn(LowerCase, ch)
      [] ch = "\t" -> 9
      [] ch = "\n" -> 10
      [] ch = " " -> 32
      [] ch = "+" -> 43
      [] ch = "-" -> 45
      [] ch = "." -> 46
      [] ch = "/" -> 47
      [] ch = ":" -> 58
      [] ch = "_" -> 95

\* String.prototype.trim
Trim(s) ==
    LET keep == {i \in 1..Len(s) : s[i] \notin Whitespace}
        first == CHOOSE i \in keep : \A j \in keep : i <= j
        last == CHOOSE i \in keep : \A j \in keep : j <= i
    IN  IF keep = {} THEN <<>> ELSE SubSeq(s, first, last)

\* String.prototype.toLowerCase
ToLowerCase(s) ==
    [i \in 1..Len(s) |->
        IF s[i] \in UpperCaseChars
        THEN LowerCase[IndexIn(UpperCase, s[i])]
        ELSE s[i]]

\* String.prototype.split(/[\.-]/): the pieces between delimiters, empty
\* pieces kept.
RECURSIVE Split(_)
Split(s) ==
    LET at == {i \in 1..Len(s) : s[i] \in Delimiters}
        first == CHOOSE i \in at : \A j \in at : i <= j
    IN  IF at = {}
        THEN <<s>>
        ELSE <<SubSeq(s, 1, first - 1)>> \o Split(SubSeq(s, first + 1, Len(s)))

\* /^\d+$/.test(segment)
IsDigits(segment) ==
    /\ Len(segment) > 0
    /\ \A i \in 1..Len(segment) : segment[i] \in DigitChars

\* parseInt(segment, 10) of a string of digits
RECURSIVE ParseInt(_)
ParseInt(segment) ==
    IF Len(segment) = 0
    THEN 0
    ELSE 10 * ParseInt(SubSeq(segment, 1, Len(segment) - 1))
         + (IndexIn(Digits, segment[Len(segment)]) - 1)

\* x > y on two strings: the first differing code unit decides, and a
\* proper prefix is the smaller string.
RECURSIVE StringGreater(_, _)
StringGreater(x, y) ==
    IF Len(x) = 0 THEN FALSE
    ELSE IF Len(y) = 0 THEN TRUE
    ELSE IF x[1] = y[1] THEN StringGreater(Tail(x), Tail(y))
    ELSE CharCode(x[1]) > CharCode(y[1])

---------------------------------------------------------------------------
(* tokenizeVersion and compareVersionStrings.                              *)

\* The version segment of one non-empty trimmed piece, numeric segments
\* compared as strings (no digit test).
SegmentAllStrings(segment) ==
    [type |-> "string", value |-> ToLowerCase(segment)]

\* The version segment of one non-empty trimmed piece.
Segment(segment) ==
    IF IsDigits(segment)
    THEN [type |-> "number", value |-> ParseInt(segment)]
    ELSE [type |-> "string", value |-> ToLowerCase(segment)]

TokenizeVersion(version) ==
    LET pieces == Split(version)
        trimmed == [i \in 1..Len(pieces) |-> Trim(pieces[i])]
        kept == SelectSeq(trimmed, LAMBDA segment : Len(segment) > 0)
    IN  [i \in 1..Len(kept) |-> Segment(kept[i])]

Max(m, n) == IF m >= n THEN m ELSE n

\* tokens[index] ?? { type: "number", value: 0 }, ignoring the padding: a
\* missing position reads as an empty string segment.
SegAtNoPadding(tokens, index) ==
    IF index <= Len(tokens)
    THEN tokens[index]
    ELSE [type |-> "string", value |-> <<>>]

\* tokens[index] ?? { type: "number", value: 0 }  (index counted from 1)
SegAt(tokens, index) ==
    IF index <= Len(tokens)
    THEN tokens[index]
    ELSE [type |-> "number", value |-> 0]

\* Two segments of the same type with different values.
SameKind(segA, segB) ==
    IF segA.type = "number"
    THEN (IF segA.value > segB.value THEN 1 ELSE -1)
    ELSE (IF StringGreater(segA.value, segB.value) THEN 1 ELSE -1)

\* Two segments of different types, the string side ranked higher.
MixedKindStringWins(segA, segB) ==
    IF segA.type = "number" /\ segB.type = "string" THEN -1 ELSE 1

\* Two segments of different types, both orders answering 1.
MixedKindOneSided(segA, segB) == 1

\* Two segments of different types: the numeric side ranks higher.
MixedKind(segA, segB) ==
    IF segA.type = "number" /\ segB.type = "string" THEN 1 ELSE -1

\* The for loop of compareVersionStrings from position index on.
RECURSIVE CompareLoop(_, _, _)
CompareLoop(tokensA, tokensB, index) ==
    IF index > Max(Len(tokensA), Len(tokensB))
    THEN 0
    ELSE LET segA == SegAt(tokensA, index)
             segB == SegAt(tokensB, index)
         IN  IF segA.type = segB.type
             THEN IF segA.value = segB.value
                  THEN CompareLoop(tokensA, tokensB, index + 1)
                  ELSE SameKind(segA, segB)
             ELSE MixedKind(segA, segB)

CompareVersionStrings(va, vb) ==
    CompareLoop(TokenizeVersion(va), TokenizeVersion(vb), 1)

---------------------------------------------------------------------------
(* The feed document.  An attribute is None when the element does not      *)
(* carry it; pubDate is None when the item has no pubDate element.  The    *)
(* text of a URL or of a date is a sequence whose elements are whitespace  *)
(* characters or one block of text free of whitespace.                     *)

Enclosure(url, version, shortVersion) ==
    Some([url |-> url, version |-> version, shortVersion |-> shortVersion])

Item(enclosure, pubDate) == [enclosure |-> enclosure, pubDate |-> pubDate]

\* A number that may be NaN.
NaN == [nan |-> TRUE]

Num(n) == [nan |-> FALSE, num |-> n]

\* Date.parse on the date texts the feeds carry: the instant of an RFC 1123
\* date, NaN for any other text.  Instants are in seconds (Date.parse
\* gives milliseconds; every date here is a whole second and the selector
\* only compares instants).
DateParse(text) ==
    CASE text = <<"Mon, 01 Jan 2024 00:00:00 GMT">> -> Num(1704067200)
      [] text = <<"Wed, 01 Jan 2025 00:00:00 GMT">> -> Num(1735689600)
      [] text = <<"Thu, 01 Jan 1970 00:00:00 GMT">> -> Num(0)
      [] text = <<"Wed, 31 Dec 1969 00:00:00 GMT">> -> Num(0 - 86400)
      [] OTHER -> NaN

\* A number that may be -Infinity.
NegInfinity == [finite |-> FALSE]

Finite(n) == [finite |-> TRUE, num |-> n]

\* x > y on numbers that may be -Infinity
Greater(x, y) == x.finite /\ (~y.finite \/ x.num > y.num)

\* pubDate || -Infinity: the instant 0 is falsy and reads as -Infinity.
OrNegInfinityFalsy(pubDate) ==
    IF pubDate.some /\ pubDate.val # 0 THEN Finite(pubDate.val) ELSE NegInfinity

\* pubDate ?? -Infinity
OrNegInfinity(pubDate) ==
    IF pubDate.some THEN Finite(pubDate.val) ELSE NegInfinity

\* x || y on strings: x unless it is empty
OrElse(x, y) == IF Len(x) > 0 THEN x ELSE y

\* getAttribute(name)?.trim() ?? ""
TrimmedOrEmpty(attribute) ==
    IF attribute.some THEN Trim(attribute.val) ELSE <<>>

\* enclosure.getAttribute("url"), not trimmed
DownloadUrlUntrimmed(enclosure) ==
    IF enclosure.url.some THEN enclosure.url.val ELSE <<>>

\* enclosure.getAttribute("url")?.trim(), undefined read as ""
DownloadUrl(enclosure) == TrimmedOrEmpty(enclosure.url)

\* versionKey = shortVersion || versionAttr || null
VersionKeyShortFirst(versionAttr, shortVersion) ==
    IF Len(OrElse(shortVersion, versionAttr)) > 0
    THEN Some(OrElse(shortVersion, versionAttr))
    ELSE None

\* versionKey = versionAttr || shortVersion || null
VersionKey(versionAttr, shortVersion) ==
    IF Len(OrElse(versionAttr, shortVersion)) > 0
    THEN Some(OrElse(versionAttr, shortVersion))
    ELSE None

\* pubDate of the candidate, an unparsable or missing date read as the
\* epoch.
PubDateNaNAsEpoch(parsedPubDate) ==
    IF parsedPubDate.nan THEN Some(0) ELSE Some(parsedPubDate.num)

\* pubDate: Number.isNaN(parsedPubDate) ? null : parsedPubDate
PubDate(parsedPubDate) ==
    IF parsedPubDate.nan THEN None ELSE Some(parsedPubDate.num)

\* The candidate of an item whose enclosure has a non-empty trimmed URL.
Candidate(item) ==
    LET enclosure == item.enclosure.val
        versionAttr == TrimmedOrEmpty(enclosure.version)
        shortVersion == TrimmedOrEmpty(enclosure.shortVersion)
        pubDateText == TrimmedOrEmpty(item.pubDate)
        parsedPubDate == IF Len(pubDateText) > 0 THEN DateParse(pubDateText) ELSE NaN
    IN  [versionKey |-> VersionKey(versionAttr, shortVersion),
         displayVersion |-> OrElse(shortVersion, versionAttr),
         downloadUrl |-> DownloadUrl(enclosure),
         pubDate |-> PubDate(parsedPubDate)]

\* The date comparison with >= in place of >: of two candidates with equal
\* or unknown dates the later in the document replaces the earlier.
ByPubDateOrEqual(latest, candidate) ==
    IF Greater(OrNegInfinity(latest.pubDate), OrNegInfinity(candidate.pubDate))
    THEN latest
    ELSE candidate

\* The date comparison that ends the loop body.
ByPubDate(latest, candidate) ==
    IF Greater(OrNegInfinity(candidate.pubDate), OrNegInfinity(latest.pubDate))
    THEN candidate
    ELSE latest

\* The loop body without its two else-if branches: a pair in which only
\* one side has a version key goes to the date comparison.
ConsiderNoKeylessBranches(latest, candidate) ==
    IF candidate.versionKey.some /\ latest.versionKey.some
    THEN LET versionComparison ==
                 CompareVersionStrings(candidate.versionKey.val, latest.versionKey.val)
         IN  IF versionComparison > 0 THEN candidate
             ELSE IF versionComparison < 0 THEN latest
             ELSE ByPubDate(latest, candidate)
    ELSE ByPubDate(latest, candidate)

\* The loop body with the version comparison inverted.
ConsiderLowerVersion(latest, candidate) ==
    IF candidate.versionKey.some /\ latest.versionKey.some
    THEN LET versionComparison ==
                 CompareVersionStrings(candidate.versionKey.val, latest.versionKey.val)
         IN  IF versionComparison < 0 THEN candidate
             ELSE IF versionComparison > 0 THEN latest
             ELSE ByPubDate(latest, candidate)
    ELSE IF candidate.versionKey.some /\ ~latest.versionKey.some THEN candidate
    ELSE IF ~candidate.versionKey.some /\ latest.versionKey.some THEN latest
    ELSE ByPubDate(latest, candidate)

\* The loop body with the date comparison ahead of the version comparison:
\* a strictly later or strictly earlier date decides before the versions.
ConsiderDateFirst(latest, candidate) ==
    IF Greater(OrNegInfinity(candidate.pubDate), OrNegInfinity(latest.pubDate))
    THEN candidate
    ELSE IF Greater(OrNegInfinity(latest.pubDate), OrNegInfinity(candidate.pubDate))
    THEN latest
    ELSE IF candidate.versionKey.some /\ latest.versionKey.some
    THEN (IF CompareVersionStrings(candidate.versionKey.val, latest.versionKey.val) > 0
          THEN candidate
          ELSE latest)
    ELSE IF candidate.versionKey.some /\ ~latest.versionKey.some THEN candidate
    ELSE latest

\* The loop body from "if (candidate.versionKey && latest.versionKey)" on:
\* the candidate that is latest after it, given a latest that is not null.
Consider(latest, candidate) ==
    IF candidate.versionKey.some /\ latest.versionKey.some
    THEN LET versionComparison ==
                 CompareVersionStrings(candidate.versionKey.val, latest.versionKey.val)
         IN  IF versionComparison > 0 THEN candidate
             ELSE IF versionComparison < 0 THEN latest
             ELSE ByPubDate(latest, candidate)
    ELSE IF candidate.versionKey.some /\ ~latest.versionKey.some THEN candidate
    ELSE IF ~candidate.versionKey.some /\ latest.versionKey.some THEN latest
    ELSE ByPubDate(latest, candidate)

\* The two guards that skip an item, the URL tested before it is trimmed.
IsCandidateUntrimmed(item) ==
    /\ item.enclosure.some
    /\ Len(DownloadUrlUntrimmed(item.enclosure.val)) > 0

\* The two guards that skip an item: no enclosure, or no URL left after
\* trimming.
IsCandidate(item) ==
    /\ item.enclosure.some
    /\ Len(DownloadUrl(item.enclosure.val)) > 0

\* One iteration of the for loop, an item that is no candidate dropping
\* what was found before it.
LoopBodyForgets(latest, item) ==
    IF ~IsCandidate(item) THEN None
    ELSE IF ~latest.some THEN Some(Candidate(item))
    ELSE Some(Consider(latest.val, Candidate(item)))

\* One iteration of the for loop: latest (None for null) after the item.
LoopBody(latest, item) ==
    IF ~IsCandidate(item) THEN latest
    ELSE IF ~latest.some THEN Some(Candidate(item))
    ELSE Some(Consider(latest.val, Candidate(item)))

\* latest after the first n items of the loop.
RECURSIVE LatestAfter(_, _)
LatestAfter(items, n) ==
    IF n = 0 THEN None ELSE LoopBody(LatestAfter(items, n - 1), items[n])

\* The VersionInfo built from latest, the URL taken from the first
\* candidate of the feed.
ResultOfMixed(items, latest) ==
    IF ~latest.some
    THEN None
    ELSE LET first == CHOOSE i \in 1..Len(items) :
                          /\ IsCandidate(items[i])
                          /\ \A j \in 1..(i - 1) : ~IsCandidate(items[j])
         IN  Some([version |-> latest.val.displayVersion,
                   downloadUrl |-> Candidate(items[first]).downloadUrl])

\* The return of findLatestSparkleRelease: null, or the VersionInfo of
\* latest.
ResultOf(items, latest) ==
    IF ~latest.some
    THEN None
    ELSE Some([version |-> latest.val.displayVersion,
               downloadUrl |-> latest.val.downloadUrl])

\* xml.querySelectorAll("item, enclosure"): an enclosure outside the
\* channel's items read as an item of its own.
ChannelItemsOrBareEnclosure(doc) ==
    IF doc.rootEnclosure.some
    THEN doc.items \o <<Item(doc.rootEnclosure, None)>>
    ELSE doc.items

\* xml.querySelectorAll("channel > item")
ChannelItems(doc) == doc.items

FindLatestSparkleRelease(doc) ==
    LET items == ChannelItems(doc)
    IN  ResultOf(items, LatestAfter(items, Len(items)))

---------------------------------------------------------------------------
(* What App renders from versionInfo.                                      *)

FallbackUrl == <<"https://github.com/vivy-company/aizen/releases">>

\* href={versionInfo?.downloadUrl || "https://github.com/.../releases"}
Href(info) ==
    IF info.some /\ Len(info.val.downloadUrl) > 0
    THEN info.val.downloadUrl
    ELSE FallbackUrl

\* `v${versionInfo?.version}` rendered whenever versionInfo is set.
VersionLabelWhenSet(info) ==
    IF info.some THEN <<"v">> \o info.val.version ELSE <<>>

\* {versionInfo?.version && `v${versionInfo.version}`}: the text after
\* "Download ", empty when nothing is rendered.
VersionLabel(info) ==
    IF info.some /\ Len(info.val.version) > 0
    THEN <<"v">> \o info.val.version
    ELSE <<>>

---------------------------------------------------------------------------
(* The inputs: version strings, feed items and feed documents.             *)

\* Most items of a feed document.
MaxItems == 3

\* Most dot-separated segments of a generated version string.
MaxSegments == 2

V_1 == <<"1">>
V_1_0 == <<"1", ".", "0">>
V_1_0_0 == <<"1", ".", "0", ".", "0">>
V_1_0_beta == <<"1", ".", "0", ".", "b", "e", "t", "a">>
V_1_0_dash_beta == <<"1", ".", "0", "-", "b", "e", "t", "a">>
V_1_0_dash_Beta == <<"1", ".", "0", "-", "B", "e", "t", "a">>
V_1_0_dash_rc == <<"1", ".", "0", "-", "r", "c">>
V_1_2_0 == <<"1", ".", "2", ".", "0">>
V_1_9_5 == <<"1", ".", "9", ".", "5">>
V_1_10_0 == <<"1", ".", "1", "0", ".", "0">>
V_2_0 == <<"2", ".", "0">>
V_2_0_0 == <<"2", ".", "0", ".", "0">>
V_3_0 == <<"3", ".", "0">>
V_9_0 == <<"9", ".", "0">>
V_10_0 == <<"1", "0", ".", "0">>
V_01_0 == <<"0", "1", ".", "0">>
V_1_space_0 == <<"1", ".", " ", "0">>
V_1_dot_dot_0 == <<"1", ".", ".", "0">>
V_1_0_space_b == <<"1", ".", "0", " ", "b">>
V_dot == <<".">>
Blank == <<" ", " ">>

\* The raw segments generated version strings are joined from.
SegmentPool == {<<"0">>, <<"1">>, <<"b">>}

RECURSIVE Join(_)
Join(segments) ==
    IF Len(segments) = 1
    THEN segments[1]
    ELSE segments[1] \o <<".">> \o Join(Tail(segments))

GeneratedVersions ==
    UNION {{Join(segments) : segments \in [1..n -> SegmentPool]} : n \in 1..MaxSegments}

NamedVersions ==
    {V_1, V_1_0, V_1_0_0, V_1_0_beta, V_1_0_dash_beta, V_1_0_dash_Beta,
     V_1_0_dash_rc, V_1_2_0, V_1_9_5, V_1_10_0, V_2_0, V_2_0_0, V_9_0,
     V_10_0, V_01_0, V_1_space_0, V_1_dot_dot_0, V_1_0_space_b, V_dot}

VersionStrings == GeneratedVersions \cup NamedVersions

Date2024 == Some(<<"Mon, 01 Jan 2024 00:00:00 GMT">>)
Date2025 == Some(<<" ", "Wed, 01 Jan 2025 00:00:00 GMT", "\n">>)
DateEpoch == Some(<<"Thu, 01 Jan 1970 00:00:00 GMT">>)
Date1969 == Some(<<"Wed, 31 Dec 1969 00:00:00 GMT">>)
DateUnparsable == Some(<<"n", "/", "a">>)

Url(name) == Some(<<name>>)

\* Items that are no candidates.
ItemNoEnclosure == Item(None, Date2025)
ItemNoUrl == Item(Enclosure(None, Some(V_9_0), Some(V_9_0)), Date2025)
ItemBlankUrl == Item(Enclosure(Some(Blank), Some(V_10_0), None), Date2025)

\* Items with a version identifier and no publish date.
Item_1_2_0 == Item(Enclosure(Url("a.zip"), Some(V_1_2_0), None), None)
Item_1_10_0 ==
    Item(Enclosure(Some(<<" ", "b.zip", " ">>), Some(V_1_10_0), None), None)
Item_1_9_5 == Item(Enclosure(Url("c.zip"), Some(V_1_9_5), Some(Blank)), None)
Item_1_10_0_short_1_0 ==
    Item(Enclosure(Url("d.zip"), Some(V_1_10_0), Some(V_1_0)), None)
Item_1_9_5_short_3_0 ==
    Item(Enclosure(Url("e.zip"), Some(<<" ">> \o V_1_9_5), Some(V_3_0 \o <<" ">>)), None)
Item_short_1_2_0 == Item(Enclosure(Url("f.zip"), Some(Blank), Some(V_1_2_0)), None)

\* Items with versions that compare equal and different publish dates.
Item_2_0_0_in_2024 == Item(Enclosure(Url("g.zip"), Some(V_2_0_0), None), Date2024)
Item_2_0_0_in_2025 == Item(Enclosure(Url("h.zip"), Some(V_2_0_0), None), Date2025)
Item_2_0_0_unparsable ==
    Item(Enclosure(Url("i.zip"), Some(V_2_0_0), None), DateUnparsable)
Item_2_0_at_epoch == Item(Enclosure(Url("j.zip"), Some(V_2_0), None), DateEpoch)

\* Items without any version attribute.
Item_keyless_in_2025 == Item(Enclosure(Url("k.zip"), None, None), Date2025)
Item_keyless_undated == Item(Enclosure(Url("l.zip"), None, Some(Blank)), None)
Item_keyless_in_1969 == Item(Enclosure(Url("m.zip"), None, None), Date1969)

ItemPool ==
    {ItemNoEnclosure, ItemNoUrl, ItemBlankUrl,
     Item_1_2_0, Item_1_10_0, Item_1_9_5,
     Item_1_10_0_short_1_0, Item_1_9_5_short_3_0, Item_short_1_2_0,
     Item_2_0_0_in_2024, Item_2_0_0_in_2025, Item_2_0_0_unparsable,
     Item_2_0_at_epoch,
     Item_keyless_in_2025, Item_keyless_undated, Item_keyless_in_1969}

\* A parsed document: the items of its channel in document order, an
\* enclosure outside any item of a channel (None when there is none), and
\* whether the parser reported an error.
Document(items, rootEnclosure, parsererror) ==
    [items |-> items, rootEnclosure |-> rootEnclosure, parsererror |-> parsererror]

\* The feed documents whose channel has n items.
Documents(n) == {Document(items, None, FALSE) : items \in [1..n -> ItemPool]}

\* Most items of a malformed feed that precede its first error.
MaxItemsBeforeError == 1

\* What parseFromString(xmlText, "text/xml") returns for a malformed feed.
\* It does not throw: the document holds a parsererror element, and either
\* nothing else or the n items parsed before the error, as the browser's
\* parser decides.
ErrorDocuments(n) == {Document(items, None, TRUE) : items \in [1..n -> ItemPool]}

\* Feeds of the legacy shape: no channel items, one bare enclosure.
LegacyDocuments ==
    {Document(<<>>, enclosure, FALSE) :
        enclosure \in {Enclosure(Url("n.zip"), Some(V_2_0_0), Some(V_2_0)),
                       Enclosure(Url("o.zip"), None, None)}}

---------------------------------------------------------------------------
(* App: the fetch chain started by useEffect on mount.                     *)

Init ==
    /\ pc = "pending"
    /\ \/ \E n \in 0..MaxItems : xml \in Documents(n)
       \/ \E n \in 0..MaxItemsBeforeError : xml \in ErrorDocuments(n)
       \/ xml \in LegacyDocuments
    /\ versionInfo = None
    /\ a = <<>> /\ b = <<>> /\ c = <<>>
    /\ order = None

\* The handler of a feed that is fetched again after it was handled: the
\* chain is pending anew.
FetchResolvedRefetches ==
    /\ pc = "pending"
    /\ LET latestRelease == FindLatestSparkleRelease(xml)
       IN  versionInfo' = IF latestRelease.some THEN latestRelease ELSE versionInfo
    /\ pc' = "pending"
    /\ UNCHANGED <<xml, a, b, c, order>>

\* .then((xmlText) => { ... }): the feed arrived and was parsed into xml.
FetchResolved ==
    /\ pc = "pending"
    /\ LET latestRelease == FindLatestSparkleRelease(xml)
       IN  versionInfo' = IF latestRelease.some THEN latestRelease ELSE versionInfo
    /\ pc' = "resolved"
    /\ UNCHANGED <<xml, a, b, c, order>>

\* .catch((err) => { console.error(...) })
FetchRejected ==
    /\ pc = "pending"
    /\ pc' = "rejected"
    /\ UNCHANGED <<xml, versionInfo, a, b, c, order>>

Next == FetchResolved \/ FetchRejected

Spec == Init /\ [][Next]_vars

---------------------------------------------------------------------------
(* compareVersionStrings applied to three version strings.                 *)

InitCompare ==
    /\ pc = "compare"
    /\ a \in VersionStrings /\ b \in VersionStrings /\ c \in VersionStrings
    /\ order = None
    /\ xml = Document(<<>>, None, FALSE)
    /\ versionInfo = None

\* compareVersionStrings called on the pairs of the three version strings.
Compare ==
    /\ pc = "compare"
    /\ order' = Some([aa |-> CompareVersionStrings(a, a),
                      ab |-> CompareVersionStrings(a, b),
                      ba |-> CompareVersionStrings(b, a),
                      bc |-> CompareVersionStrings(b, c),
                      ac |-> CompareVersionStrings(a, c)])
    /\ pc' = "compared"
    /\ UNCHANGED <<xml, versionInfo, a, b, c>>

NextCompare == Compare

SpecCompare == InitCompare /\ [][NextCompare]_vars

---------------------------------------------------------------------------
(* findLatestSparkleRelease applied to feeds of two items with the version *)
(* strings a and b.                                                        *)

\* The feed of an item of version va followed by an item of version vb.
PairFeed(va, pubDateA, vb, pubDateB) ==
    Document(<<Item(Enclosure(Url("first.zip"), Some(va), None), pubDateA),
               Item(Enclosure(Url("second.zip"), Some(vb), None), pubDateB)>>,
             None, FALSE)

InitSelect ==
    /\ pc = "select"
    /\ a \in VersionStrings /\ b \in VersionStrings
    /\ c = <<>>
    /\ order = None
    /\ xml = Document(<<>>, None, FALSE)
    /\ versionInfo = None

\* compareVersionStrings called on a and b, and findLatestSparkleRelease
\* on the feed of a and b: undated, with the second item dated later, with
\* the first item dated later, with only the first item dated, and with
\* only the second item dated.
Select ==
    /\ pc = "select"
    /\ order' = Some([ab |-> CompareVersionStrings(a, b),
                      ba |-> CompareVersionStrings(b, a),
                      undated |-> FindLatestSparkleRelease(PairFeed(a, None, b, None)),
                      laterSecond |->
                          FindLatestSparkleRelease(PairFeed(a, Date2024, b, Date2025)),
                      laterFirst |->
                          FindLatestSparkleRelease(PairFeed(a, Date2025, b, Date2024)),
                      datedFirst |->
                          FindLatestSparkleRelease(PairFeed(a, Date2024, b, None)),
                      datedSecond |->
                          FindLatestSparkleRelease(PairFeed(a, None, b, Date2024))])
    /\ pc' = "selected"
    /\ UNCHANGED <<xml, versionInfo, a, b, c>>

NextSelect == Select

SpecSelect == InitSelect /\ [][NextSelect]_vars

---------------------------------------------------------------------------
(* What the properties below say about a feed item, stated on the item     *)
(* itself.                                                                 *)

\* The item's enclosure carries a URL that is not empty after trimming.
HasUsableUrl(item) ==
    /\ item.enclosure.some
    /\ item.enclosure.val.url.some
    /\ Trim(item.enclosure.val.url.val) # <<>>

UsableItems(items) == {i \in 1..Len(items) : HasUsableUrl(items[i])}

\* The trimmed sparkle:version attribute, empty when absent.
IdentifierOf(item) ==
    IF item.enclosure.val.version.some
    THEN Trim(item.enclosure.val.version.val)
    ELSE <<>>

\* The trimmed sparkle:shortVersionString attribute, empty when absent.
ShortVersionOf(item) ==
    IF item.enclosure.val.shortVersion.some
    THEN Trim(item.enclosure.val.shortVersion.val)
    ELSE <<>>

\* What the page is given for a usable item that is selected.
InfoOf(item) ==
    [version |-> IF ShortVersionOf(item) # <<>> THEN ShortVersionOf(item)
                 ELSE IdentifierOf(item),
     downloadUrl |-> Trim(item.enclosure.val.url.val)]

\* The two candidates have version keys that compare equal, or neither has
\* a version key.
Tied(x, y) ==
    \/ /\ x.versionKey.some /\ y.versionKey.some
       /\ CompareVersionStrings(x.versionKey.val, y.versionKey.val) = 0
    \/ ~x.versionKey.some /\ ~y.versionKey.some

\* Publish date p is strictly later than q, an unknown date being earlier
\* than every known one.
StrictlyLater(p, q) == p.some /\ (~q.some \/ p.val > q.val)

\* The sequence holds exactly the items of the set, each once.
IsArrangementOf(items, set) ==
    Len(items) = Cardinality(set) /\ Range(items) = set

Sign(n) == IF n > 0 THEN 1 ELSE IF n < 0 THEN -1 ELSE 0

\* Two segments are the same segment.
SameSegment(x, y) == x.type = y.type /\ x.value = y.value

\* Position i exists in both token sequences and is the first at which
\* they differ.
FirstDifference(tokensA, tokensB, i) ==
    /\ i <= Len(tokensA) /\ i <= Len(tokensB)
    /\ ~SameSegment(tokensA[i], tokensB[i])
    /\ \A j \in 1..(i - 1) : SameSegment(tokensA[j], tokensB[j])

\* The tokens without their trailing numeric zero segments.
RECURSIVE Canonical(_)
Canonical(tokens) ==
    IF Len(tokens) > 0 /\ tokens[Len(tokens)].type = "number"
       /\ tokens[Len(tokens)].value = 0
    THEN Canonical(SubSeq(tokens, 1, Len(tokens) - 1))
    ELSE tokens

SameTokens(tokensA, tokensB) ==
    /\ Len(tokensA) = Len(tokensB)
    /\ \A i \in 1..Len(tokensA) : SameSegment(tokensA[i], tokensB[i])

\* Every segment is a number.
AllNumeric(tokens) == \A i \in 1..Len(tokens) : tokens[i].type = "number"

\* A non-empty string of letters.
IsWord(w) == Len(w) > 0 /\ \A i \in 1..Len(w) : w[i] \in UpperCaseChars \cup LowerCaseChars

\* Version string vb is va followed by "-" and a word.
IsQualified(va, vb) ==
    /\ Len(vb) > Len(va) + 1
    /\ SubSeq(vb, 1, Len(va)) = va
    /\ vb[Len(va) + 1] = "-"
    /\ IsWord(SubSeq(vb, Len(va) + 2, Len(vb)))

\* What the page is given when the first, the second item of PairFeed is
\* selected.
FirstOf(va) == Some([version |-> Trim(va), downloadUrl |-> <<"first.zip">>])

SecondOf(vb) == Some([version |-> Trim(vb), downloadUrl |-> <<"second.zip">>])

\* Candidate x strictly beats candidate y under the pairwise rule: a
\* version key over none, then the greater version, then the strictly
\* later publish date.
Beats(x, y) ==
    IF x.versionKey.some /\ y.versionKey.some
    THEN LET compared == CompareVersionStrings(x.versionKey.val, y.versionKey.val)
         IN  \/ compared > 0
             \/ compared = 0 /\ StrictlyLater(x.pubDate, y.pubDate)
    ELSE IF x.versionKey.some # y.versionKey.some
    THEN x.versionKey.some
    ELSE StrictlyLater(x.pubDate, y.pubDate)

\* The candidates of the usable items, by position.
RECURSIVE Candidates(_)
Candidates(items) ==
    IF Len(items) = 0
    THEN <<>>
    ELSE <<IF HasUsableUrl(Head(items)) THEN Some(Candidate(Head(items))) ELSE None>>
         \o Candidates(Tail(items))

\* Position i holds the first best of the candidates: beaten by none of
\* them, and beating every one before it.
IsFirstBest(candidates, i) ==
    /\ candidates[i].some
    /\ \A j \in 1..Len(candidates) :
           (j # i /\ candidates[j].some) =>
               /\ ~Beats(candidates[j].val, candidates[i].val)
               /\ j < i => Beats(candidates[i].val, candidates[j].val)

\* No two candidates tie: of every two, one beats the other.
NoTies(candidates) ==
    \A i, j \in 1..Len(candidates) :
        (i < j /\ candidates[i].some /\ candidates[j].some) =>
            \/ Beats(candidates[i].val, candidates[j].val)
            \/ Beats(candidates[j].val, candidates[i].val)

\* The items with those at positions k and k + 1 exchanged.
Exchanged(items, k) ==
    [i \in 1..Len(items) |->
        IF i = k THEN items[k + 1] ELSE IF i = k + 1 THEN items[k] ELSE items[i]]

\* The items without the one at position k.
RemoveAt(items, k) == SubSeq(items, 1, k - 1) \o SubSeq(items, k + 1, Len(items))

\* The document with other channel items.
WithItems(doc, items) == [doc EXCEPT !.items = items]

\* Both version strings give PairFeed's items a version key.
BothKeyed(va, vb) == Trim(va) # <<>> /\ Trim(vb) # <<>>

---------------------------------------------------------------------------
(* Properties.                                                             *)

\* C1: a feed with at least one item whose enclosure carries a non-empty
\* trimmed URL yields a result, and the result's version and downloadUrl
\* are those of one and the same usable item of the feed.
C1_ExactlyOneCandidate ==
    (pc = "resolved" /\ UsableItems(xml.items) # {}) =>
        /\ versionInfo.some
        /\ \E i \in UsableItems(xml.items) : versionInfo.val = InfoOf(xml.items[i])

\* A feed with several usable items of different versions and URLs has
\* been resolved to one of them.
C1_Witness ==
    /\ pc = "resolved"
    /\ Cardinality({InfoOf(xml.items[i]).version : i \in UsableItems(xml.items)}) >= 3
    /\ Cardinality({InfoOf(xml.items[i]).downloadUrl : i \in UsableItems(xml.items)}) >= 3
    /\ versionInfo.some

\* C2: a feed with no items, or whose items all lack an enclosure or a URL
\* that is non-empty after trimming, yields null: the selection stays
\* absent.
C2_NoneWithoutUsableItem ==
    (pc = "resolved" /\ UsableItems(xml.items) = {}) => versionInfo = None

\* A feed of an item without enclosure, one without URL and one with a
\* blank URL, all versioned or dated, has been resolved to nothing.
C2_Witness ==
    /\ pc = "resolved"
    /\ IsArrangementOf(xml.items, {ItemNoEnclosure, ItemNoUrl, ItemBlankUrl})
    /\ versionInfo = None

\* C3: compareVersionStrings is reflexive (compare(a,a) = 0), skew
\* symmetric (compare(a,b) = -compare(b,a)), antisymmetric (two strings
\* each at least the other compare equal, and are the same tokens up to
\* trailing zero segments) and transitive, whatever the segment counts
\* and segment kinds.
C3_TotalOrder ==
    pc = "compared" =>
        LET o == order.val
        IN  /\ o.aa = 0
            /\ o.ab \in {-1, 0, 1}
            /\ o.ab = 0 - o.ba
            /\ (o.ab >= 0 /\ o.ba >= 0) =>
                   /\ o.ab = 0
                   /\ SameTokens(Canonical(TokenizeVersion(a)),
                                 Canonical(TokenizeVersion(b)))
            /\ (o.ab >= 0 /\ o.bc >= 0) => o.ac >= 0

\* Three versions of different segment counts, with word segments, have
\* been compared and are strictly descending.
C3_Witness ==
    /\ pc = "compared"
    /\ order.val.ab = 1 /\ order.val.bc = 1 /\ order.val.ac = 1
    /\ Len(TokenizeVersion(a)) # Len(TokenizeVersion(b))
    /\ \E i \in 1..Len(TokenizeVersion(b)) : TokenizeVersion(b)[i].type = "string"
    /\ \E i \in 1..Len(TokenizeVersion(c)) : TokenizeVersion(c)[i].type = "string"

\* C4: when every usable item has a version key and no publish date, the
\* result is a usable item whose version key is greatest under
\* compareVersionStrings, in every document order; items 1.2.0, 1.10.0 and
\* 1.9.5 yield the 1.10.0 item.
C4_GreatestVersion ==
    LET items == xml.items
        usable == UsableItems(items)
    IN  (/\ pc = "resolved"
         /\ usable # {}
         /\ \A i \in usable :
                Candidate(items[i]).versionKey.some /\ ~items[i].pubDate.some) =>
            /\ versionInfo.some
            /\ \E i \in usable :
                   /\ versionInfo.val = InfoOf(items[i])
                   /\ \A j \in usable :
                          CompareVersionStrings(Candidate(items[i]).versionKey.val,
                                                Candidate(items[j]).versionKey.val) >= 0
            /\ IsArrangementOf(items, {Item_1_2_0, Item_1_10_0, Item_1_9_5}) =>
                   versionInfo.val = InfoOf(Item_1_10_0)

\* The feed 1.2.0, 1.10.0, 1.9.5 has been resolved to the 1.10.0 item.
C4_Witness ==
    /\ pc = "resolved"
    /\ xml.items = <<Item_1_2_0, Item_1_10_0, Item_1_9_5>>
    /\ versionInfo = Some([version |-> V_1_10_0, downloadUrl |-> <<"b.zip">>])

\* C5: when the running best and a new candidate are tied on the version
\* key (keys that compare equal, or no key on either side), the candidate
\* replaces the best exactly when its parsed publish date is strictly
\* later, an unknown date being earlier than every known date, the epoch
\* and earlier dates included; with equal or unknown dates the earlier item
\* is kept.  Two 2.0.0 items dated 2024 and 2025 yield the 2025 item in
\* either order.
C5_TieBrokenByLaterDate ==
    LET items == xml.items
    IN  pc = "resolved" =>
            /\ \A n \in 2..Len(items) :
                   LET best == LatestAfter(items, n - 1)
                       candidate == Candidate(items[n])
                   IN  (HasUsableUrl(items[n]) /\ best.some /\ Tied(best.val, candidate)) =>
                           LatestAfter(items, n).val =
                               IF StrictlyLater(candidate.pubDate, best.val.pubDate)
                               THEN candidate
                               ELSE best.val
            /\ (/\ Len(items) = 2
                /\ UsableItems(items) = {1, 2}
                /\ Tied(Candidate(items[1]), Candidate(items[2]))) =>
                   versionInfo.val =
                       IF StrictlyLater(Candidate(items[2]).pubDate,
                                        Candidate(items[1]).pubDate)
                       THEN InfoOf(items[2])
                       ELSE InfoOf(items[1])
            /\ IsArrangementOf(items, {Item_2_0_0_in_2024, Item_2_0_0_in_2025}) =>
                   versionInfo.val = InfoOf(Item_2_0_0_in_2025)

\* A 2.0.0 item with an unparsable date followed by a 2.0 item dated at the
\* epoch has been resolved to the second: the versions compare equal and a
\* known date at the epoch is later than an unknown one.
C5_Witness ==
    /\ pc = "resolved"
    /\ xml.items = <<Item_2_0_0_unparsable, Item_2_0_at_epoch>>
    /\ versionInfo = Some([version |-> V_2_0, downloadUrl |-> <<"j.zip">>])

\* C6: between a usable item with a version key and a usable item without
\* one the keyed item is selected, in either document order and whatever
\* the publish dates: a keyed candidate replaces a keyless best, and a
\* keyless candidate never replaces a keyed best.
C6_KeyedBeatsKeyless ==
    LET items == xml.items
    IN  pc = "resolved" =>
            /\ \A n \in 2..Len(items) :
                   LET best == LatestAfter(items, n - 1)
                       candidate == Candidate(items[n])
                   IN  (HasUsableUrl(items[n]) /\ best.some) =>
                           /\ (candidate.versionKey.some /\ ~best.val.versionKey.some) =>
                                  LatestAfter(items, n).val = candidate
                           /\ (~candidate.versionKey.some /\ best.val.versionKey.some) =>
                                  LatestAfter(items, n).val = best.val
            /\ \A keyed, keyless \in 1..Len(items) :
                   (/\ Len(items) = 2
                    /\ UsableItems(items) = {1, 2}
                    /\ Candidate(items[keyed]).versionKey.some
                    /\ ~Candidate(items[keyless]).versionKey.some) =>
                       versionInfo.val = InfoOf(items[keyed])

\* An undated keyed item followed by a keyless item dated 2025 has been
\* resolved to the keyed item.
C6_Witness ==
    /\ pc = "resolved"
    /\ xml.items = <<Item_1_2_0, Item_keyless_in_2025>>
    /\ versionInfo = Some([version |-> V_1_2_0, downloadUrl |-> <<"a.zip">>])

\* C7: numeric segments compare by magnitude: when the first position at
\* which two versions differ holds numeric segments m and n, the result is
\* the sign of m - n; compareVersionStrings("10.0", "9.0") > 0.
C7_NumericByMagnitude ==
    pc = "compared" =>
        LET tokensA == TokenizeVersion(a)
            tokensB == TokenizeVersion(b)
        IN  /\ \A i \in 1..Len(tokensA) :
                   (/\ FirstDifference(tokensA, tokensB, i)
                    /\ tokensA[i].type = "number"
                    /\ tokensB[i].type = "number") =>
                       order.val.ab = Sign(tokensA[i].value - tokensB[i].value)
            /\ (a = V_10_0 /\ b = V_9_0) => order.val.ab > 0
            /\ (a = V_9_0 /\ b = V_10_0) => order.val.ab < 0

\* "10.0" has been compared with "9.0" and ranks higher.
C7_Witness ==
    /\ pc = "compared"
    /\ a = V_10_0 /\ b = V_9_0
    /\ order.val.ab = 1

\* C8: when two token sequences of equal length first differ at a position
\* that holds a numeric segment on one side and a string segment on the
\* other, the numeric side ranks higher, whatever the values;
\* compareVersionStrings("1.0.0", "1.0.beta") > 0 and
\* compareVersionStrings("1.0.beta", "1.0.0") < 0.
C8_NumericOutranksString ==
    pc = "compared" =>
        LET tokensA == TokenizeVersion(a)
            tokensB == TokenizeVersion(b)
        IN  /\ \A i \in 1..Len(tokensA) :
                   (/\ Len(tokensA) = Len(tokensB)
                    /\ FirstDifference(tokensA, tokensB, i)
                    /\ tokensA[i].type # tokensB[i].type) =>
                       order.val.ab = IF tokensA[i].type = "number" THEN 1 ELSE -1
            /\ (a = V_1_0_0 /\ b = V_1_0_beta) => (order.val.ab > 0 /\ order.val.ba < 0)

\* "1.0.0" has been compared with "1.0.beta" and ranks higher.
C8_Witness ==
    /\ pc = "compared"
    /\ a = V_1_0_0 /\ b = V_1_0_beta
    /\ order.val.ab = 1 /\ order.val.ba = -1

\* C9 as stated: compareVersionStrings("1.0", "1.0-beta") does not return
\* a positive result.
C9_NotPositive ==
    (pc = "compared" /\ a = V_1_0 /\ b = V_1_0_dash_beta) => ~(order.val.ab > 0)

\* C9, amended: compareVersionStrings("1.0", "1.0-beta") returns 1, so
\* "1.0" > "1.0-beta" is true: the missing third position of "1.0" reads
\* as numeric 0, which outranks the string segment "beta".
C9_Positive ==
    (pc = "compared" /\ a = V_1_0 /\ b = V_1_0_dash_beta) =>
        (order.val.ab = 1 /\ order.val.ba = -1)

\* "1.0" has been compared with "1.0-beta".
C9_Witness ==
    /\ pc = "compared"
    /\ a = V_1_0 /\ b = V_1_0_dash_beta
    /\ Len(TokenizeVersion(a)) = 2 /\ Len(TokenizeVersion(b)) = 3
    /\ order.val.ab = 1

\* C10: an item is ranked by its trimmed version identifier (else by its
\* short version string) and reported with its trimmed short version
\* string (else with its identifier, else with the empty string): among
\* usable items that all carry an identifier the result is an item of
\* greatest identifier, reported with its short version string when it has
\* one, also when that short version string is the lower one.
C10_RankedByIdentifierShownByShortVersion ==
    LET items == xml.items
        usable == UsableItems(items)
    IN  pc = "resolved" =>
            /\ \A i \in usable :
                   LET candidate == Candidate(items[i])
                   IN  /\ candidate.versionKey =
                              (IF IdentifierOf(items[i]) # <<>>
                               THEN Some(IdentifierOf(items[i]))
                               ELSE IF ShortVersionOf(items[i]) # <<>>
                               THEN Some(ShortVersionOf(items[i]))
                               ELSE None)
                       /\ candidate.displayVersion = InfoOf(items[i]).version
            /\ (usable # {} /\ \A i \in usable : IdentifierOf(items[i]) # <<>>) =>
                   \E i \in usable :
                       /\ versionInfo.val = InfoOf(items[i])
                       /\ \A j \in usable :
                              CompareVersionStrings(IdentifierOf(items[i]),
                                                    IdentifierOf(items[j])) >= 0
            /\ IsArrangementOf(items, {Item_1_10_0_short_1_0, Item_1_9_5_short_3_0}) =>
                   versionInfo.val = [version |-> V_1_0, downloadUrl |-> <<"d.zip">>]

\* Identifier 1.9.5 shown as 3.0 followed by identifier 1.10.0 shown as 1.0
\* has been resolved to the second item, reported as 1.0.
C10_Witness ==
    /\ pc = "resolved"
    /\ xml.items = <<Item_1_9_5_short_3_0, Item_1_10_0_short_1_0>>
    /\ versionInfo = Some([version |-> V_1_0, downloadUrl |-> <<"d.zip">>])

\* C11: in every state the download link targets the selected release's
\* downloadUrl when a selection is present and the fallback URL when it is
\* absent, and the label "v<version>" is shown exactly when a selection
\* with a non-empty version is present; a feed with zero items leaves the
\* fallback URL and no label.
C11_LinkAndLabelFollowSelection ==
    /\ Href(versionInfo) =
           (IF versionInfo.some THEN versionInfo.val.downloadUrl ELSE FallbackUrl)
    /\ VersionLabel(versionInfo) =
           (IF versionInfo.some /\ versionInfo.val.version # <<>>
            THEN <<"v">> \o versionInfo.val.version
            ELSE <<>>)
    /\ (pc = "resolved" /\ Len(xml.items) = 0) =>
           (Href(versionInfo) = FallbackUrl /\ VersionLabel(versionInfo) = <<>>)

\* A feed has been resolved to a release without any version: the link
\* targets its URL and no label is shown.
C11_Witness ==
    /\ pc = "resolved"
    /\ versionInfo.some
    /\ versionInfo.val.version = <<>>
    /\ Href(versionInfo) = <<"k.zip">>
    /\ VersionLabel(versionInfo) = <<>>

\* C12 as stated: after a failure of the fetch chain, a rejected fetch or a
\* malformed feed, versionInfo is still null and the page shows the
\* fallback link without a version.
C12_FailureLeavesSelectionAbsent ==
    (pc = "rejected" \/ (pc = "resolved" /\ xml.parsererror)) =>
        /\ versionInfo = None
        /\ Href(versionInfo) = FallbackUrl
        /\ VersionLabel(versionInfo) = <<>>

\* C13: findLatestSparkleRelease never fails: whatever the defects of the
\* items, a resolved fetch has left null or the pair of a usable item in
\* versionInfo; an item without enclosure, without URL or with a blank URL
\* is no candidate, an item without version attributes gets an absent
\* version key and an empty version, and an item without publish date or
\* with an unparsable one gets an unknown date.
C13_DefectsAbsorbed ==
    LET items == xml.items
    IN  pc = "resolved" =>
            /\ \/ versionInfo = None
               \/ \E i \in UsableItems(items) : versionInfo.val = InfoOf(items[i])
            /\ \A i \in 1..Len(items) :
                   LET item == items[i]
                       candidate == Candidate(item)
                   IN  IF \/ ~item.enclosure.some
                          \/ ~item.enclosure.val.url.some
                          \/ item.enclosure.val.url.val = Blank
                       THEN ~IsCandidate(item)
                       ELSE /\ IsCandidate(item)
                            /\ (/\ ~item.enclosure.val.version.some
                                /\ ~item.enclosure.val.shortVersion.some) =>
                                   /\ ~candidate.versionKey.some
                                   /\ candidate.displayVersion = <<>>
                            /\ (~item.pubDate.some \/ item.pubDate = DateUnparsable) =>
                                   ~candidate.pubDate.some

\* A feed of an item without enclosure, a keyless undated item and an item
\* with an unparsable date has been resolved, to the versioned item.
C13_Witness ==
    /\ pc = "resolved"
    /\ xml.items = <<ItemNoEnclosure, Item_keyless_undated, Item_2_0_0_unparsable>>
    /\ versionInfo = Some([version |-> V_2_0_0, downloadUrl |-> <<"i.zip">>])

\* C15: a feed of the legacy shape, an enclosure outside any item of a
\* channel and no channel items, yields no candidates:
\* findLatestSparkleRelease returns null on it and versionInfo stays null,
\* before and after the fetch has resolved.
C15_LegacyFeedYieldsNone ==
    (xml.rootEnclosure.some /\ Len(xml.items) = 0) =>
        /\ FindLatestSparkleRelease(xml) = None
        /\ versionInfo = None

\* A legacy feed whose bare enclosure has a URL and a version has been
\* resolved, and nothing is selected.
C15_Witness ==
    /\ pc = "resolved"
    /\ xml.rootEnclosure = Enclosure(Url("n.zip"), Some(V_2_0_0), Some(V_2_0))
    /\ Len(xml.items) = 0
    /\ versionInfo = None

\* C16: version dominates publish date: of two items whose version keys
\* compare unequal, the one with the greater version is selected whatever
\* the dates: both unknown, the lower version dated later, the lower
\* version dated earlier, only the lower version dated, only the higher
\* version dated.
C16_VersionDominatesDate ==
    (pc = "selected" /\ BothKeyed(a, b) /\ order.val.ab # 0) =>
        LET winner == IF order.val.ab > 0 THEN FirstOf(a) ELSE SecondOf(b)
        IN  /\ order.val.undated = winner
            /\ order.val.laterSecond = winner
            /\ order.val.laterFirst = winner
            /\ order.val.datedFirst = winner
            /\ order.val.datedSecond = winner

\* 1.2.0 dated 2025 before 1.10.0 dated 2024, and 1.2.0 dated before
\* 1.10.0 undated: the second item was selected both times.
C16_Witness ==
    /\ pc = "selected"
    /\ a = V_1_2_0 /\ b = V_1_10_0
    /\ order.val.laterFirst = SecondOf(V_1_10_0)
    /\ order.val.datedFirst = SecondOf(V_1_10_0)

\* C17: an all-numeric version sorts ahead of the same version followed by
\* a trailing qualifier word: when every segment of a is a number and b is
\* a followed by "-" and a word, or b's segments are a's followed by one
\* string segment, compareVersionStrings(a, b) is 1 and
\* compareVersionStrings(b, a) is -1, and the selector picks the item of a
\* whatever the dates; so of "1.0" and "1.0-beta" it picks "1.0", in
\* either document order.
C17_NumericAheadOfQualified ==
    pc = "selected" =>
        LET tokensA == TokenizeVersion(a)
            tokensB == TokenizeVersion(b)
            pickedFirst == /\ order.val.undated = FirstOf(a)
                           /\ order.val.laterSecond = FirstOf(a)
                           /\ order.val.laterFirst = FirstOf(a)
            pickedSecond == /\ order.val.undated = SecondOf(b)
                            /\ order.val.laterSecond = SecondOf(b)
                            /\ order.val.laterFirst = SecondOf(b)
        IN  /\ (AllNumeric(tokensA) /\ IsQualified(a, b)) =>
                   (order.val.ab = 1 /\ order.val.ba = -1)
            /\ (/\ AllNumeric(tokensA)
                /\ Len(tokensB) = Len(tokensA) + 1
                /\ SameTokens(tokensA, SubSeq(tokensB, 1, Len(tokensA)))
                /\ tokensB[Len(tokensB)].type = "string") =>
                   /\ order.val.ab = 1 /\ order.val.ba = -1
                   /\ BothKeyed(a, b) => pickedFirst
            /\ (a = V_1_0 /\ b = V_1_0_dash_beta) =>
                   (order.val.ab = 1 /\ pickedFirst)
            /\ (a = V_1_0_dash_beta /\ b = V_1_0) =>
                   (order.val.ab = -1 /\ pickedSecond)

\* "1.0-beta" before "1.0", the first item dated later: compared as -1,
\* and the second item was selected.
C17_Witness ==
    /\ pc = "selected"
    /\ a = V_1_0_dash_beta /\ b = V_1_0
    /\ order.val.ab = -1
    /\ order.val.laterFirst = SecondOf(V_1_0)

\* C18: a missing position counts as numeric 0: version strings whose
\* segments differ only by trailing zero segments compare equal, "1",
\* "1.0" and "1.0.0" among them; two items with such versions are ranked
\* by publish date, the later date selected, and with equal or unknown
\* dates the first in the document is kept; a version is lower than the
\* same version extended by a positive numeric segment.
C18_MissingPositionIsZero ==
    pc = "selected" =>
        LET tokensA == TokenizeVersion(a)
            tokensB == TokenizeVersion(b)
        IN  /\ SameTokens(Canonical(tokensA), Canonical(tokensB)) =>
                   /\ order.val.ab = 0 /\ order.val.ba = 0
                   /\ BothKeyed(a, b) =>
                          /\ order.val.undated = FirstOf(a)
                          /\ order.val.laterSecond = SecondOf(b)
                          /\ order.val.laterFirst = FirstOf(a)
                          /\ order.val.datedFirst = FirstOf(a)
                          /\ order.val.datedSecond = SecondOf(b)
            /\ {a, b} \subseteq {V_1, V_1_0, V_1_0_0} => order.val.ab = 0
            /\ (/\ Len(tokensB) = Len(tokensA) + 1
                /\ SameTokens(tokensA, SubSeq(tokensB, 1, Len(tokensA)))
                /\ tokensB[Len(tokensB)].type = "number"
                /\ tokensB[Len(tokensB)].value > 0) =>
                   (order.val.ab = -1 /\ order.val.ba = 1)

\* "1" before "1.0.0": compared equal, the first item kept when undated,
\* the second selected when it is dated later.
C18_Witness ==
    /\ pc = "selected"
    /\ a = V_1 /\ b = V_1_0_0
    /\ order.val.ab = 0
    /\ order.val.undated = FirstOf(V_1)
    /\ order.val.laterSecond = SecondOf(V_1_0_0)

\* C19: the left fold keeps the first best candidate of the items seen:
\* the result is a usable item that no usable item of the feed strictly
\* beats (version key over none, then greater version, then strictly later
\* date) and that beats every usable item before it, so it is the earliest
\* of those that tie with it; when no two usable items tie, exchanging two
\* neighbouring items gives the same result, and so does every permutation
\* of the items, each being a sequence of such exchanges between feeds
\* without ties. Every prefix of a feed being a feed itself, the first
\* conjunct is also what latest holds after each processed item.
C19_FoldKeepsFirstBest ==
    LET items == xml.items
    IN  (pc = "resolved" /\ UsableItems(items) # {}) =>
            LET candidates == Candidates(items)
            IN  /\ versionInfo.some
                /\ \E i \in UsableItems(items) :
                       /\ versionInfo.val = InfoOf(items[i])
                       /\ IsFirstBest(candidates, i)
                /\ NoTies(candidates) =>
                       \A k \in 1..(Len(items) - 1) :
                           FindLatestSparkleRelease(WithItems(xml, Exchanged(items, k)))
                               = versionInfo

\* Two undated items of version 1.2.0 that tie, followed by a later dated
\* item without version, have been resolved to the first of the three.
C19_Witness ==
    /\ pc = "resolved"
    /\ xml.items = <<Item_short_1_2_0, Item_1_2_0, Item_keyless_in_2025>>
    /\ versionInfo = Some([version |-> V_1_2_0, downloadUrl |-> <<"f.zip">>])

\* C20: items that are no candidates have no effect on the selection:
\* the feed without one of its items that has no enclosure or no non-empty
\* URL, at whatever position, gives the result the feed gives. The feed
\* being the shorter one with the item inserted, this is insertion as well
\* as removal.
C20_NonCandidatesHaveNoEffect ==
    LET items == xml.items
    IN  pc = "resolved" =>
            \A k \in 1..Len(items) :
                ~HasUsableUrl(items[k]) =>
                    FindLatestSparkleRelease(WithItems(xml, RemoveAt(items, k)))
                        = versionInfo

\* An item with a blank URL and version 10.0 between 1.2.0 and 1.9.5 has
\* been resolved to 1.9.5.
C20_Witness ==
    /\ pc = "resolved"
    /\ xml.items = <<Item_1_2_0, ItemBlankUrl, Item_1_9_5>>
    /\ versionInfo = Some([version |-> V_1_9_5, downloadUrl |-> <<"c.zip">>])

\* C21: per page load there is a single fetch attempt and the selector is
\* invoked at most once: every step of the page settles the pending fetch,
\* so a behaviour has at most one; versionInfo is absent while the fetch
\* is pending and after it was rejected; it changes only in the step that
\* resolves the fetch, from absent to the selector's result, a candidate;
\* once present it is never changed; and a resolved fetch whose feed
\* yields null leaves it absent.
C21_SelectionChangesAtMostOnce ==
    /\ [](pc \in {"pending", "rejected"} => versionInfo = None)
    /\ []((pc = "resolved" /\ ~FindLatestSparkleRelease(xml).some) =>
              versionInfo = None)
    /\ [][/\ pc = "pending"
          /\ pc' \in {"resolved", "rejected"}
          /\ xml' = xml
          /\ versionInfo.some => versionInfo' = versionInfo
          /\ versionInfo' # versionInfo =>
                 /\ versionInfo = None
                 /\ pc' = "resolved"
                 /\ versionInfo'.some
                 /\ versionInfo' = FindLatestSparkleRelease(xml)]_vars

\* The fetch of a feed of an undated item without version and version 2.0
\* dated at the epoch has been resolved: the selection, absent before, is
\* the second item.
C21_Witness ==
    /\ pc = "resolved"
    /\ xml.items = <<Item_keyless_undated, Item_2_0_at_epoch>>
    /\ versionInfo = Some([version |-> V_2_0, downloadUrl |-> <<"j.zip">>])

=============================================================================
